---- MODULE Spec2Model ----
(***************************************************************************)
(* Model of scripts/check_cla.py: the CLA gate run by CI on a pull         *)
(* request.  One invocation reads PR_DESCRIPTION, PR_AUTHOR and            *)
(* GITHUB_TOKEN from the environment, optionally asks the GitHub API       *)
(* whether the author is a member of the organization, searches the        *)
(* description for the CLA sentence and exits with a status code.          *)
(*                                                                         *)
(* Two invocations on the same pull request are modelled (Runs), so that   *)
(* statements comparing two runs are invariants of one state.  Invocations *)
(* share no state; the second is started when the first has exited.        *)
(*                                                                         *)
(* Text is a sequence of one-character strings.  The CLA sentence is       *)
(* abstracted to its first and its last character, "B" and ".", which      *)
(* keeps what matters to the search: an ordinary character followed by a   *)
(* character that is special in a regular expression.                      *)
(***************************************************************************)
EXTENDS Integers, Sequences, FiniteSets, TLC

\* Longest pull request description drawn as an input.
MaxLen == 3

\* Characters of a description: the two of the CLA sentence, the lower-case
\* variant of the first, and a line break.
Alphabet == {"B", "b", ".", "\n"}

\* line 8 (abstracted, see above)
CLA_TEXT == <<"B", ".">>

\* line 9
ORGANIZATION == "get-convex"

Runs == {1, 2}

VARIABLES
  env,             \* os.environ of each run: a function on the names that are set
  pc,              \* where each run stands
  PR_DESCRIPTION,  \* main's local, bound at line 54
  requests,        \* the requests each run handed to urlopen, in order
  outcome,         \* what urlopen did with each run's request
  member_status,   \* main's local, bound at line 65: "unset", "True", "None"
  stdout,          \* the lines each run printed, in order
  exit_code,       \* the exit status of each run, -1 while it runs
  uncaught,        \* whether the run ended by an exception nobody caught
  trace            \* the steps each run has taken, in order

vars == <<env, pc, PR_DESCRIPTION, requests, outcome, member_status, stdout,
          exit_code, uncaught, trace>>

----------------------------------------------------------------------------
(* Inputs *)

RECURSIVE SeqsUpTo(_, _)
SeqsUpTo(S, n) ==
  IF n = 0 THEN {<<>>}
  ELSE LET shorter == SeqsUpTo(S, n - 1)
       IN  shorter \cup {Append(s, c) : s \in shorter, c \in S}

Descriptions == SeqsUpTo(Alphabet, MaxLen)

\* A variable that is set may be set to the empty string.
Authors == {<<>>, <<"o", "c", "t", "o">>}
Tokens == {<<>>, <<"g", "h", "p">>}

NoVars == [k \in {} |-> <<>>]

Setting(k, values) == {NoVars} \cup {k :> v : v \in values}

\* The environments of a run on a pull request whose description is d.
EnvsFor(d) ==
  {a @@ b @@ c : a \in Setting("PR_DESCRIPTION", {d}),
                 b \in Setting("PR_AUTHOR", Authors),
                 c \in Setting("GITHUB_TOKEN", Tokens)}

\* What urlopen can do with the one request: return a response (urllib
\* returns only 2xx responses), raise HTTPError for another status, raise
\* URLError for a transport failure, or raise something else (InvalidURL).
Outcomes ==
  {[kind |-> "response", exc |-> "", status |-> s] : s \in {200, 204}}
  \cup {[kind |-> "raise", exc |-> "HTTPError", status |-> s] : s \in {403, 404, 500}}
  \cup {[kind |-> "raise", exc |-> x, status |-> 0] : x \in {"URLError", "InvalidURL"}}

NoOutcome == [kind |-> "none", exc |-> "", status |-> 0]

----------------------------------------------------------------------------
(* Python values *)

\* os.environ.get(k): None is <<>>, a string s is <<s>>.
Get(e, k) == IF k \in DOMAIN e THEN <<e[k]>> ELSE <<>>

\* The test "is not None" in place of the truth value.
Truthy_isnotnone(v) == v # <<>>

\* The truth value of an optional string: None and "" are false.
Truthy(v) == v # <<>> /\ v[1] # <<>>

\* The base class of each exception class that can reach the handlers.
Base(cls) ==
  CASE cls = "HTTPError" -> "URLError"
    [] cls = "URLError" -> "OSError"
    [] cls = "OSError" -> "Exception"
    [] cls = "InvalidURL" -> "HTTPException"
    [] cls = "HTTPException" -> "Exception"
    [] cls = "Exception" -> "BaseException"
    [] OTHER -> "object"

RECURSIVE IsInstance(_, _)
IsInstance(exc, cls) ==
  \/ exc = cls
  \/ exc \notin {"BaseException", "object"} /\ IsInstance(Base(exc), cls)

----------------------------------------------------------------------------
(* re.escape and re.search, line 76 *)

\* The characters re.escape puts a backslash before (those of them that a
\* description or the CLA sentence can hold, and the backslash itself).
SpecialChars == {".", "\n", "\\", "^", "$", "*", "+", "?", " "}

RECURSIVE escape(_)
escape(s) ==
  IF s = <<>> THEN <<>>
  ELSE (IF Head(s) \in SpecialChars THEN <<"\\", Head(s)>> ELSE <<Head(s)>>)
       \o escape(Tail(s))

\* The pattern as written, with no escaping: what a call without re.escape
\* would search for.
escape_omitted(s) == s

\* The atoms of a pattern: a backslash makes the next character literal, a
\* bare "." stands for any character but a line break, any other character
\* stands for itself (the patterns here hold no other operator).
RECURSIVE Compile(_)
Compile(p) ==
  IF p = <<>> THEN <<>>
  ELSE IF Head(p) = "\\" /\ Len(p) >= 2
       THEN <<[any |-> FALSE, ch |-> p[2]]>> \o Compile(Tail(Tail(p)))
  ELSE IF Head(p) = "."
       THEN <<[any |-> TRUE, ch |-> "."]>> \o Compile(Tail(p))
  ELSE <<[any |-> FALSE, ch |-> Head(p)]>> \o Compile(Tail(p))

AtomMatches(a, c) == IF a.any THEN c # "\n" ELSE c = a.ch

MatchAt(atoms, s, i) ==
  /\ i + Len(atoms) - 1 <= Len(s)
  /\ \A k \in 1..Len(atoms) : AtomMatches(atoms[k], s[i + k - 1])

\* re.search(p, s, re.MULTILINE) is not None.  MULTILINE changes what "^"
\* and "$" match, and an escaped pattern holds neither.
search(p, s) == \E i \in 1..(Len(s) + 1) : MatchAt(Compile(p), s, i)

\* The search with re.escape left out: "." then matches any character.
cla_text_found_unescaped(description) ==
  search(escape_omitted(CLA_TEXT), description)

\* line 76: the condition under which the description passes
cla_text_found(description) == search(escape(CLA_TEXT), description)

----------------------------------------------------------------------------
(* is_org_member, lines 11-49 *)

\* The Authorization header attached whether or not there is a token.
Headers_always(github_token) ==
  ("Accept" :> <<"application/vnd.github+json">>)
  @@ ("X-GitHub-Api-Version" :> <<"2022-11-28">>)
  @@ ("Authorization" :> (<<"Bearer", " ">>
                          \o (IF github_token = <<>> THEN <<"None">> ELSE github_token[1])))

\* lines 19-29
Headers(github_token) ==
  ("Accept" :> <<"application/vnd.github+json">>)
  @@ ("X-GitHub-Api-Version" :> <<"2022-11-28">>)
  @@ (IF Truthy(github_token)
      THEN "Authorization" :> (<<"Bearer", " ">> \o github_token[1])
      ELSE NoVars)

Request(username, github_token) ==
  [org |-> ORGANIZATION, member |-> username, headers |-> Headers(github_token)]

\* False returned, in place of None, for a response other than 204.
StatusResult_false(status) == IF status = 204 THEN "True" ELSE "False"

\* Any 2xx response taken for a confirmation.
StatusResult_any2xx(status) ==
  IF status >= 200 /\ status < 300 THEN "True" ELSE "None"

\* lines 37-39
StatusResult(status) == IF status = 204 THEN "True" ELSE "None"

\* The outer clause written "except OSError".
Handler_oserror(exc) ==
  IF IsInstance(exc, "HTTPError") THEN "inner"
  ELSE IF IsInstance(exc, "OSError") THEN "outer"
  ELSE "none"

\* lines 40 and 47: the except clause, if any, that handles exc
Handler(exc) ==
  IF IsInstance(exc, "HTTPError") THEN "inner"
  ELSE IF IsInstance(exc, "Exception") THEN "outer"
  ELSE "none"

\* The messages the script prints.
\* line 56
MsgNoDescription == "There was no pull request description given"
\* line 48, followed by the exception
MsgLookupFailed == "Warning: Failed to check organization membership: "
\* line 68, which names the author
MsgSkip == "Skipping CLA check: is a member of the organization (Convex employee)"
\* line 71, which names the author
MsgNotVerified == "Warning: Could not verify organization membership. Proceeding with CLA check."
\* line 73
MsgAuthorNotSet == "Warning: PR_AUTHOR environment variable not set. Proceeding with CLA check."
\* line 78, followed by CLA_TEXT
MsgMissing == "Pull request description does not include the required CLA text. Please add the following text to your PR description:"
\* line 82
MsgFound == "CLA text found in PR description"

\* A printed line: the message and the value formatted into it.
Line(msg, arg) == [msg |-> msg, arg |-> arg]

----------------------------------------------------------------------------
(* main, lines 51-82 *)

Init ==
  /\ \E d \in Descriptions : env \in [Runs -> EnvsFor(d)]
  /\ pc = [r \in Runs |-> "start"]
  /\ PR_DESCRIPTION = [r \in Runs |-> <<>>]
  /\ requests = [r \in Runs |-> <<>>]
  /\ outcome = [r \in Runs |-> NoOutcome]
  /\ member_status = [r \in Runs |-> "unset"]
  /\ stdout = [r \in Runs |-> <<>>]
  /\ exit_code = [r \in Runs |-> -1]
  /\ uncaught = [r \in Runs |-> FALSE]
  /\ trace = [r \in Runs |-> <<>>]

\* print(...)
Print_(r, line) == stdout' = [stdout EXCEPT ![r] = Append(@, line)]

\* sys.exit(code), or the end of main with code 0
Exit(r, code, steps) ==
  /\ pc' = [pc EXCEPT ![r] = "exited"]
  /\ exit_code' = [exit_code EXCEPT ![r] = code]
  /\ trace' = [trace EXCEPT ![r] = @ \o steps \o <<"exit">>]

Goto(r, label, steps) ==
  /\ pc' = [pc EXCEPT ![r] = label]
  /\ trace' = [trace EXCEPT ![r] = @ \o steps]
  /\ UNCHANGED exit_code

\* The description read with os.environ.get("PR_DESCRIPTION", ""): a missing
\* description is taken for an empty one.
GetDescription_default(r) ==
  /\ pc[r] = "start"
  /\ \A q \in Runs : q < r => pc[q] = "exited"
  /\ PR_DESCRIPTION' = [PR_DESCRIPTION EXCEPT
                          ![r] = IF "PR_DESCRIPTION" \in DOMAIN env[r]
                                 THEN env[r]["PR_DESCRIPTION"] ELSE <<>>]
  /\ Goto(r, "author", <<"description">>)
  /\ UNCHANGED <<env, requests, outcome, member_status, stdout, uncaught>>

\* lines 53-57
GetDescription(r) ==
  /\ pc[r] = "start"
  /\ \A q \in Runs : q < r => pc[q] = "exited"
  /\ IF "PR_DESCRIPTION" \in DOMAIN env[r]
     THEN /\ PR_DESCRIPTION' = [PR_DESCRIPTION EXCEPT ![r] = env[r]["PR_DESCRIPTION"]]
          /\ Goto(r, "author", <<"description">>)
          /\ UNCHANGED stdout
     ELSE /\ Print_(r, Line(MsgNoDescription, <<>>))
          /\ Exit(r, 1, <<"description">>)
          /\ UNCHANGED PR_DESCRIPTION
  /\ UNCHANGED <<env, requests, outcome, member_status, uncaught>>

\* lines 60-65 and 72-73: the request is built and handed to urlopen (line 36)
CheckAuthor(r) ==
  /\ pc[r] = "author"
  /\ LET PR_AUTHOR == Get(env[r], "PR_AUTHOR")
         GITHUB_TOKEN == Get(env[r], "GITHUB_TOKEN")
     IN  IF Truthy(PR_AUTHOR)
         THEN /\ requests' = [requests EXCEPT
                                ![r] = Append(@, Request(PR_AUTHOR[1], GITHUB_TOKEN))]
              /\ Goto(r, "urlopen", <<"lookup">>)
              /\ UNCHANGED stdout
         ELSE /\ Print_(r, Line(MsgAuthorNotSet, <<>>))
              /\ Goto(r, "cla_check", <<>>)
              /\ UNCHANGED requests
  /\ UNCHANGED <<env, PR_DESCRIPTION, outcome, member_status, uncaught>>

\* lines 36-39: urlopen returns a response and is_org_member returns
UrlopenReturns(r) ==
  /\ pc[r] = "urlopen"
  /\ \E o \in {x \in Outcomes : x.kind = "response"} :
       /\ outcome' = [outcome EXCEPT ![r] = o]
       /\ member_status' = [member_status EXCEPT ![r] = StatusResult(o.status)]
  /\ Goto(r, "status", <<>>)
  /\ UNCHANGED <<env, PR_DESCRIPTION, requests, stdout, uncaught>>

\* A request that raised is sent once more.
UrlopenRaises_retry(r) ==
  /\ pc[r] = "urlopen"
  /\ \E o \in {x \in Outcomes : x.kind = "raise"} :
       /\ outcome' = [outcome EXCEPT ![r] = o]
       /\ IF Len(requests[r]) < 2
          THEN /\ requests' = [requests EXCEPT ![r] = Append(@, requests[r][1])]
               /\ Goto(r, "urlopen", <<>>)
               /\ UNCHANGED <<member_status, stdout>>
          ELSE /\ member_status' = [member_status EXCEPT ![r] = "None"]
               /\ Print_(r, Line(MsgLookupFailed, <<o.exc>>))
               /\ Goto(r, "status", <<>>)
               /\ UNCHANGED requests
  /\ UNCHANGED <<env, PR_DESCRIPTION, uncaught>>

\* lines 40-49: urlopen raises and an except clause of is_org_member, if any
\* matches, handles the exception; an exception nobody handles ends the run
\* with a traceback and status 1
UrlopenRaises(r) ==
  /\ pc[r] = "urlopen"
  /\ \E o \in {x \in Outcomes : x.kind = "raise"} :
       /\ outcome' = [outcome EXCEPT ![r] = o]
       /\ CASE Handler(o.exc) = "inner" ->
                 /\ member_status' = [member_status EXCEPT ![r] = "None"]
                 /\ Goto(r, "status", <<>>)
                 /\ UNCHANGED <<stdout, uncaught>>
            [] Handler(o.exc) = "outer" ->
                 /\ Print_(r, Line(MsgLookupFailed, <<o.exc>>))
                 /\ member_status' = [member_status EXCEPT ![r] = "None"]
                 /\ Goto(r, "status", <<>>)
                 /\ UNCHANGED uncaught
            [] OTHER ->
                 /\ uncaught' = [uncaught EXCEPT ![r] = TRUE]
                 /\ Exit(r, 1, <<>>)
                 /\ UNCHANGED <<member_status, stdout>>
  /\ UNCHANGED <<env, PR_DESCRIPTION, requests>>

\* The sys.exit(0) of line 69 left out: a member's run goes on to the text
\* check.
CheckMemberStatus_noexit(r) ==
  /\ pc[r] = "status"
  /\ LET PR_AUTHOR == Get(env[r], "PR_AUTHOR")[1]
     IN  /\ Print_(r, Line(IF member_status[r] = "True" THEN MsgSkip ELSE MsgNotVerified,
                           PR_AUTHOR))
         /\ Goto(r, "cla_check", <<>>)
  /\ UNCHANGED <<env, PR_DESCRIPTION, requests, outcome, member_status, uncaught>>

\* lines 67-71
CheckMemberStatus(r) ==
  /\ pc[r] = "status"
  /\ LET PR_AUTHOR == Get(env[r], "PR_AUTHOR")[1]
     IN  IF member_status[r] = "True"
         THEN /\ Print_(r, Line(MsgSkip, PR_AUTHOR))
              /\ Exit(r, 0, <<>>)
         ELSE IF member_status[r] = "None"
         THEN /\ Print_(r, Line(MsgNotVerified, PR_AUTHOR))
              /\ Goto(r, "cla_check", <<>>)
         ELSE /\ Goto(r, "cla_check", <<>>)
              /\ UNCHANGED stdout
  /\ UNCHANGED <<env, PR_DESCRIPTION, requests, outcome, member_status, uncaught>>

\* The guidance printed without the sentence to add.
ClaCheck_noguidance(r) ==
  /\ pc[r] = "cla_check"
  /\ IF ~cla_text_found(PR_DESCRIPTION[r])
     THEN /\ Print_(r, Line(MsgMissing, <<>>))
          /\ Exit(r, 1, <<"text_check">>)
     ELSE /\ Print_(r, Line(MsgFound, <<>>))
          /\ Exit(r, 0, <<"text_check">>)
  /\ UNCHANGED <<env, PR_DESCRIPTION, requests, outcome, member_status, uncaught>>

\* lines 76-82
ClaCheck(r) ==
  /\ pc[r] = "cla_check"
  /\ IF ~cla_text_found(PR_DESCRIPTION[r])
     THEN /\ Print_(r, Line(MsgMissing, CLA_TEXT))
          /\ Exit(r, 1, <<"text_check">>)
     ELSE /\ Print_(r, Line(MsgFound, <<>>))
          /\ Exit(r, 0, <<"text_check">>)
  /\ UNCHANGED <<env, PR_DESCRIPTION, requests, outcome, member_status, uncaught>>

Next ==
  \E r \in Runs :
    \/ GetDescription(r)
    \/ CheckAuthor(r)
    \/ UrlopenReturns(r)
    \/ UrlopenRaises(r)
    \/ CheckMemberStatus(r)
    \/ ClaCheck(r)

Spec == Init /\ [][Next]_vars

\* The same job run twice: the second run is given the environment of the
\* first.
InitRerun == Init /\ \A r \in Runs : env[r] = env[1]

\* urlopen gives the process its answer, and the interpreter runs the script
\* to its end.
FairSpec == InitRerun /\ [][Next]_vars /\ WF_vars(Next)

----------------------------------------------------------------------------
(* Vocabulary of the properties *)

Exited(r) == pc[r] = "exited"

DescriptionGiven(r) == "PR_DESCRIPTION" \in DOMAIN env[r]

AuthorGiven(r) == "PR_AUTHOR" \in DOMAIN env[r]

AuthorNamed(r) == AuthorGiven(r) /\ env[r]["PR_AUTHOR"] # <<>>

TokenSupplied(r) == "GITHUB_TOKEN" \in DOMAIN env[r] /\ env[r]["GITHUB_TOKEN"] # <<>>

\* t occurs in s as a contiguous, case-sensitive substring.
Contains(s, t) == \E i \in 1..(Len(s) - Len(t) + 1) : SubSeq(s, i, i + Len(t) - 1) = t

HasClaSentence(r) == DescriptionGiven(r) /\ Contains(env[r]["PR_DESCRIPTION"], CLA_TEXT)

LookupAnswered(r) == outcome[r].kind # "none"

Confirmed204(r) == outcome[r].kind = "response" /\ outcome[r].status = 204

Answered404(r) == outcome[r].kind = "raise" /\ outcome[r].status = 404

SameDescription(r1, r2) ==
  /\ DescriptionGiven(r1) <=> DescriptionGiven(r2)
  /\ DescriptionGiven(r1) => env[r1]["PR_DESCRIPTION"] = env[r2]["PR_DESCRIPTION"]

SameAuthor(r1, r2) == Get(env[r1], "PR_AUTHOR") = Get(env[r2], "PR_AUTHOR")

Did(r, step) == \E i \in DOMAIN trace[r] : trace[r][i] = step

Printed(r, msg) == \E i \in DOMAIN stdout[r] : stdout[r][i].msg = msg

\* A line with one of the messages `first` stands before a line with one of
\* the messages `then`.
PrintedBefore(r, first, then) ==
  \E i, j \in DOMAIN stdout[r] :
    i < j /\ stdout[r][i].msg \in first /\ stdout[r][j].msg \in then

----------------------------------------------------------------------------
(* Exit code *)

\* C1: a run that has ended has exit code 0 exactly when PR_DESCRIPTION was
\* present and either the lookup answered 204 or the description contains
\* the CLA sentence as a case-sensitive substring; otherwise its exit code
\* is 1.
C1_ExitCode ==
  \A r \in Runs :
    Exited(r) =>
      /\ exit_code[r] \in {0, 1}
      /\ exit_code[r] = 0 <=>
           (DescriptionGiven(r) /\ (Confirmed204(r) \/ HasClaSentence(r)))

\* A run passed on the sentence alone, with text and a line break around it.
C1_Witness ==
  \E r \in Runs :
    /\ Exited(r) /\ exit_code[r] = 0 /\ ~Confirmed204(r)
    /\ HasClaSentence(r)
    /\ Len(env[r]["PR_DESCRIPTION"]) > Len(CLA_TEXT)
    /\ Contains(env[r]["PR_DESCRIPTION"], <<"\n">>)

\* C2: a lookup that did not answer 204 neither ends the run nor exempts the
\* author: the run goes on to the text check and ends with the exit code of
\* a run on the same description without PR_AUTHOR; and a run ends with 0 on
\* a description without the sentence only after a 204.
C2_FailedLookupAsNoAuthor ==
  /\ \A r1, r2 \in Runs :
       ( /\ Exited(r1) /\ Exited(r2)
         /\ LookupAnswered(r1) /\ ~Confirmed204(r1)
         /\ ~AuthorGiven(r2)
         /\ SameDescription(r1, r2) )
       => /\ exit_code[r1] = exit_code[r2]
          /\ Did(r1, "text_check")
          /\ ~uncaught[r1]
  /\ \A r \in Runs :
       (Exited(r) /\ exit_code[r] = 0 /\ ~HasClaSentence(r)) => Confirmed204(r)

\* A run whose lookup failed, next to a run without PR_AUTHOR on the same
\* description.
C2_Witness ==
  \E r1, r2 \in Runs :
    /\ Exited(r1) /\ Exited(r2)
    /\ outcome[r1].kind = "raise" /\ outcome[r1].exc = "URLError"
    /\ ~AuthorGiven(r2)
    /\ SameDescription(r1, r2)
    /\ ~HasClaSentence(r1)

\* C3: without PR_DESCRIPTION the run prints the diagnostic and ends with
\* exit code 1 whatever PR_AUTHOR and GITHUB_TOKEN are, with no request made
\* and no text check.
C3_MissingDescription ==
  \A r \in Runs :
    (~DescriptionGiven(r) /\ pc[r] # "start") =>
      /\ Exited(r) /\ exit_code[r] = 1
      /\ stdout[r] = <<Line(MsgNoDescription, <<>>)>>
      /\ requests[r] = <<>>
      /\ ~LookupAnswered(r)
      /\ ~Did(r, "lookup") /\ ~Did(r, "text_check")

\* A run without PR_DESCRIPTION ended, with an author named and a token.
C3_Witness ==
  \E r \in Runs :
    ~DescriptionGiven(r) /\ Exited(r) /\ AuthorNamed(r) /\ TokenSupplied(r)

\* C4: after a 204 the run prints the skip notice and ends with exit code 0
\* at once, whether or not the description has the sentence: the text check
\* is not performed and neither of its two messages is printed.
C4_MemberSkips ==
  \A r \in Runs :
    Confirmed204(r) =>
      /\ pc[r] \in {"status", "exited"}
      /\ ~Did(r, "text_check")
      /\ ~Printed(r, MsgFound) /\ ~Printed(r, MsgMissing)
      /\ Exited(r) =>
           /\ exit_code[r] = 0
           /\ stdout[r] = <<Line(MsgSkip, env[r]["PR_AUTHOR"])>>

\* A member's run ended on a description without the sentence.
C4_Witness ==
  \E r \in Runs : Confirmed204(r) /\ Exited(r) /\ ~HasClaSentence(r)

\* C5: a run makes at most one request: one when PR_DESCRIPTION is present
\* and the lookup is made, none otherwise, and a request that failed is not
\* repeated.
C5_OneRequest ==
  \A r \in Runs :
    /\ Len(requests[r]) <= 1
    /\ Len(requests[r]) = 1 <=> (DescriptionGiven(r) /\ Did(r, "lookup"))
    /\ Exited(r) => (Did(r, "lookup") <=> (DescriptionGiven(r) /\ AuthorNamed(r)))

\* A run ended after its one request failed.
C5_Witness ==
  \E r \in Runs :
    Exited(r) /\ outcome[r].kind = "raise" /\ Len(requests[r]) = 1

----------------------------------------------------------------------------
(* Messages, lookup and order *)

\* C6: on a present description without the sentence, and no 204, the run
\* ends with exit code 1 and its output holds the exact CLA sentence; the
\* "CLA text found" notice is printed only by runs that found the sentence
\* and end with exit code 0.
C6_GuidanceOnFailure ==
  \A r \in Runs :
    /\ (Exited(r) /\ DescriptionGiven(r) /\ ~HasClaSentence(r) /\ ~Confirmed204(r))
         => /\ exit_code[r] = 1
            /\ stdout[r][Len(stdout[r])] = Line(MsgMissing, CLA_TEXT)
    /\ Printed(r, MsgFound)
         => /\ Exited(r) /\ exit_code[r] = 0
            /\ HasClaSentence(r) /\ Did(r, "text_check")

\* A run failed on a description that has the sentence but for the case of
\* its first letter, after a lookup that answered 404.
C6_Witness ==
  \E r \in Runs :
    /\ Exited(r) /\ exit_code[r] = 1 /\ Answered404(r)
    /\ DescriptionGiven(r) /\ Contains(env[r]["PR_DESCRIPTION"], <<"b", ".">>)
    /\ Printed(r, MsgMissing)

\* C7: the lookup takes 204 for membership and every other outcome for
\* undetermined, and after an outcome other than 204 and 404 a warning
\* has been printed when the text check is about to run.
C7_LookupMapping ==
  \A r \in Runs :
    (LookupAnswered(r) /\ ~uncaught[r]) =>
      /\ member_status[r] = (IF Confirmed204(r) THEN "True" ELSE "None")
      /\ (~Confirmed204(r) /\ ~Answered404(r)) =>
           /\ pc[r] = "cla_check" =>
                (Printed(r, MsgNotVerified) \/ Printed(r, MsgLookupFailed))
           /\ Did(r, "text_check") =>
                PrintedBefore(r, {MsgNotVerified, MsgLookupFailed}, {MsgFound, MsgMissing})

\* A run did the text check after a 200 response, another status and a
\* transport error are seen as well.
C7_Witness ==
  \E r \in Runs :
    /\ Did(r, "text_check")
    /\ outcome[r].kind = "response" /\ outcome[r].status = 200
    /\ \E q \in Runs : outcome[q].kind = "raise" /\ ~Answered404(q) /\ Exited(q)

\* C8 as stated: with PR_DESCRIPTION present, a PR_AUTHOR present in the
\* environment is looked up before the text check, and without PR_AUTHOR no
\* lookup is made, a warning is printed and the text check follows.
C8_AsStated ==
  \A r \in Runs :
    (DescriptionGiven(r) /\ pc[r] \in {"cla_check", "exited"}) =>
      IF AuthorGiven(r)
      THEN Len(requests[r]) = 1 /\ Did(r, "lookup")
      ELSE /\ requests[r] = <<>>
           /\ stdout[r][1] = Line(MsgAuthorNotSet, <<>>)
           /\ Exited(r) => Did(r, "text_check")

\* C8: with PR_DESCRIPTION present, a PR_AUTHOR that is set to a non-empty
\* name is looked up before the text check; when PR_AUTHOR is absent or
\* empty no lookup is made, a warning is printed and the text check follows.
C8_AuthorLookup ==
  \A r \in Runs :
    (DescriptionGiven(r) /\ pc[r] \in {"cla_check", "exited"}) =>
      IF AuthorNamed(r)
      THEN /\ Len(requests[r]) = 1 /\ requests[r][1].member = env[r]["PR_AUTHOR"]
           /\ trace[r][2] = "lookup"
           /\ LookupAnswered(r)
      ELSE /\ requests[r] = <<>> /\ ~LookupAnswered(r)
           /\ stdout[r][1] = Line(MsgAuthorNotSet, <<>>)
           /\ Exited(r) => Did(r, "text_check")

\* A run with an empty PR_AUTHOR and a run with an author named have both
\* reached the text check.
C8_Witness ==
  \E r, q \in Runs :
    /\ DescriptionGiven(r) /\ AuthorGiven(r) /\ ~AuthorNamed(r) /\ Did(r, "text_check")
    /\ DescriptionGiven(q) /\ AuthorNamed(q) /\ Did(q, "text_check")

\* C9: the request carries "Authorization: Bearer <token>" exactly when a
\* token was supplied; the lookup is made without a token as well; and two
\* runs that differ in GITHUB_TOKEN alone and get the same answer end with
\* the same exit code.
C9_Token ==
  /\ \A r \in Runs :
       /\ \A i \in DOMAIN requests[r] :
            LET headers == requests[r][i].headers
            IN  /\ "Authorization" \in DOMAIN headers <=> TokenSupplied(r)
                /\ TokenSupplied(r) =>
                     headers["Authorization"] = <<"Bearer", " ">> \o env[r]["GITHUB_TOKEN"]
                /\ headers["Accept"] = <<"application/vnd.github+json">>
                /\ headers["X-GitHub-Api-Version"] = <<"2022-11-28">>
       /\ (DescriptionGiven(r) /\ AuthorNamed(r) /\ pc[r] \notin {"start", "author"})
            => Len(requests[r]) = 1
  /\ \A r1, r2 \in Runs :
       ( /\ Exited(r1) /\ Exited(r2)
         /\ SameDescription(r1, r2) /\ SameAuthor(r1, r2)
         /\ outcome[r1] = outcome[r2] )
       => exit_code[r1] = exit_code[r2]

\* Two runs that differ in the token alone, one with and one without, both
\* ended after the same answer.
C9_Witness ==
  \E r1, r2 \in Runs :
    /\ Exited(r1) /\ Exited(r2)
    /\ SameDescription(r1, r2) /\ SameAuthor(r1, r2)
    /\ TokenSupplied(r1) /\ "GITHUB_TOKEN" \notin DOMAIN env[r2]
    /\ Len(requests[r1]) = 1 /\ Len(requests[r2]) = 1
    /\ outcome[r1] = outcome[r2]

\* The steps of a run in their order: a step is not repeated and none comes
\* before an earlier one.
StepOrder == <<"description", "lookup", "text_check", "exit">>

Rank(step) == CHOOSE i \in DOMAIN StepOrder : StepOrder[i] = step

InOrder(t) == \A i, j \in DOMAIN t : i < j => Rank(t[i]) < Rank(t[j])

\* C10: once urlopen has given its answer every run ends; its steps come in
\* the order description, lookup, text check, exit; it ends with exit code 0
\* or 1, and no failure of the lookup leaves the run by an uncaught
\* exception.
C10_Terminates ==
  /\ <>(\A r \in Runs : Exited(r))
  /\ [](\A r \in Runs :
          /\ InOrder(trace[r])
          /\ trace[r] # <<>> => trace[r][1] = "description"
          /\ ~uncaught[r]
          /\ Exited(r) <=> Did(r, "exit")
          /\ Exited(r) <=> exit_code[r] \in {0, 1})

\* A run ended after urlopen raised something other than URLError, with the
\* warning printed.
C10_Witness ==
  \E r \in Runs :
    /\ Exited(r) /\ outcome[r].exc = "InvalidURL"
    /\ Printed(r, MsgLookupFailed)
    /\ trace[r] = StepOrder

====
